---- MODULE Spec2Model ----
(***************************************************************************)
(* A model of elscan: an ECHONET Lite scanner.                             *)
(*   src/src/packet.rs    the frame codec (Packet::try_from, ESV, EOJ)      *)
(*   src/src/response.rs  the response interpreters and parse_property_map *)
(*   src/src/main.rs      the receive loop and the delayed discovery task  *)
(* Bytes are integers 0..255.  Rust slices are 0-based, TLA+ sequences are *)
(* 1-based: byte k of a buffer is value[k + 1].                            *)
(***************************************************************************)
EXTENDS Integers, Sequences, FiniteSets, TLC

VARIABLES
    overflow_checks,  \* the build: TRUE = arithmetic overflow panics (debug), FALSE = it wraps (release)
    pc,               \* main task: "recv" (awaiting recv_from), "send" (awaiting send_to), "panicked"
    task,             \* spawned discovery task: "sleeping", "done"
    msg,              \* &buf[..len] of the datagram being handled / last handled
    addr,             \* its origin address
    outcome,          \* how the last datagram was classified
    pending,          \* r.instances not yet iterated by the for loop
    attempts,         \* send_to calls made while handling the current datagram
    discovery_sends,  \* send_to calls made by the spawned task
    input,            \* argument of the function under study (function specifications)
    output,           \* its result
    phase             \* "idle", "ready" (input drawn), or the name of the function applied

vars == <<overflow_checks, pc, task, msg, addr, outcome, pending, attempts,
          discovery_sends, input, output, phase>>

orchestrator_vars == <<pc, task, msg, addr, outcome, pending, attempts, discovery_sends>>

function_vars == <<input, output, phase>>

(***************************************************************************)
(* Bounds of the model.                                                    *)
(***************************************************************************)
MaxBody == 5        \* bytes after the 12-byte header in enumerated buffers
MaxOpc == 3         \* largest property count byte in enumerated buffers
MaxInstances == 2   \* 3-byte chunks in enumerated instance lists
MaxExplicit == 3    \* bytes after the count byte in enumerated explicit maps
MaxRows == 17       \* bytes after the count byte in enumerated bitmap maps

(***************************************************************************)
(* Helpers.                                                                *)
(***************************************************************************)
Byte == 0..255

SeqsUpTo(S, n) == UNION {[1..k -> S] : k \in 0..n}

Ok(v) == [status |-> "Ok", err |-> "", val |-> v]

Err(e) == [status |-> "Err", err |-> e, val |-> <<>>]

Panic(e) == [status |-> "Panic", err |-> e, val |-> <<>>]

(***************************************************************************)
(* packet.rs                                                               *)
(***************************************************************************)
EHD1 == 16

EHD2 == 129

\* impl TryFrom<Vec<ElU8>> for EOJ
EOJ_try_from(value) ==
    IF Len(value) # 3 THEN Err("invalid EOJ") ELSE Ok(<<value[1], value[2], value[3]>>)

\* a service-code table with one entry mistyped: 0x71 mapped to GetRes
ESV_try_from_mistyped(value) ==
    CASE value = 96  -> Ok("SetI")
      [] value = 97  -> Ok("SetC")
      [] value = 98  -> Ok("Get")
      [] value = 99  -> Ok("InfReq")
      [] value = 110 -> Ok("SetGet")
      [] value = 113 -> Ok("GetRes")
      [] value = 114 -> Ok("GetRes")
      [] value = 115 -> Ok("Inf")
      [] value = 116 -> Ok("InfC")
      [] value = 122 -> Ok("InfCRes")
      [] value = 126 -> Ok("SetGetRes")
      [] value = 80  -> Ok("SetISNA")
      [] value = 81  -> Ok("SetCSNA")
      [] value = 82  -> Ok("GetSNA")
      [] value = 83  -> Ok("InfSNA")
      [] value = 94  -> Ok("SetGetSNA")
      [] OTHER       -> Err("invalid ESV")

\* impl TryFrom<u8> for ESV
ESV_try_from(value) ==
    CASE value = 96  -> Ok("SetI")
      [] value = 97  -> Ok("SetC")
      [] value = 98  -> Ok("Get")
      [] value = 99  -> Ok("InfReq")
      [] value = 110 -> Ok("SetGet")
      [] value = 113 -> Ok("SetRes")
      [] value = 114 -> Ok("GetRes")
      [] value = 115 -> Ok("Inf")
      [] value = 116 -> Ok("InfC")
      [] value = 122 -> Ok("InfCRes")
      [] value = 126 -> Ok("SetGetRes")
      [] value = 80  -> Ok("SetISNA")
      [] value = 81  -> Ok("SetCSNA")
      [] value = 82  -> Ok("GetSNA")
      [] value = 83  -> Ok("InfSNA")
      [] value = 94  -> Ok("SetGetSNA")
      [] OTHER       -> Err("invalid ESV")

\* Cursor::remaining() with the cursor at position pos
remaining(value, pos) == Len(value) - pos

\* the property loop of Packet::try_from: n iterations left, cursor at pos
RECURSIVE read_props(_, _, _, _)
read_props(value, pos, n, props) ==
    IF n = 0 THEN Ok(props)
    ELSE IF remaining(value, pos) < 2 THEN Err("invalid property data")
    ELSE LET epc == value[pos + 1]
             pdc == value[pos + 2]
             at  == pos + 2
         IN  IF remaining(value, at) < pdc THEN Err("invalid property data")
             ELSE read_props(value, at + pdc, n - 1,
                             Append(props, [epc |-> epc, pdc |-> pdc,
                                            edt |-> SubSeq(value, at + 1, at + pdc)]))

\* read_exact(&mut [0; 3]) followed by the conversion into EOJ
read_eoj(value, pos) ==
    IF remaining(value, pos) < 3 THEN Err("failed to fill whole buffer")
    ELSE LET r == EOJ_try_from(SubSeq(value, pos + 1, pos + 3))
         IN  IF r.status = "Ok" THEN r ELSE Panic("invalid EOJ")

\* a header check that forgets the second header byte
check_header_first_only(value) ==
    IF value[1] # EHD1 THEN Err("invalid EHD1") ELSE Ok(<<>>)

\* the two header checks of Packet::try_from, once 12 bytes are known to be there
check_header(value) ==
    IF value[1] # EHD1 THEN Err("invalid EHD1")
    ELSE IF value[2] # EHD2 THEN Err("invalid EHD2")
    ELSE Ok(<<>>)

\* a little-endian read of the transaction id
get_u16_le(value, pos) == value[pos + 2] * 256 + value[pos + 1]

\* cursor.get_u16(): big-endian
get_u16(value, pos) == value[pos + 1] * 256 + value[pos + 2]

\* impl TryFrom<&[u8]> for Packet
Packet_try_from(value) ==
    IF remaining(value, 0) < 12 THEN Err("invalid packet")
    ELSE IF check_header(value).status # "Ok" THEN check_header(value)
    ELSE LET tid  == get_u16(value, 2)
             seoj == read_eoj(value, 4)
             deoj == read_eoj(value, 7)
             esv  == ESV_try_from(value[11])
             opc  == value[12]
             props == read_props(value, 12, opc, <<>>)
         IN  IF seoj.status # "Ok" THEN seoj
             ELSE IF deoj.status # "Ok" THEN deoj
             ELSE IF esv.status # "Ok" THEN esv
             ELSE IF props.status # "Ok" THEN props
             ELSE Ok([tid |-> tid, seoj |-> seoj.val, deoj |-> deoj.val,
                      esv |-> esv.val, opc |-> opc, props |-> props.val])

\* Packet::is_to
is_to(p, eoj) == p.deoj = eoj

\* a source check that reads the destination field
is_from_deoj(p, eoj) == p.deoj = eoj

\* Packet::is_from
is_from(p, eoj) == p.seoj = eoj

\* a response check that also lets the InfC response through
is_normal_response_wide(p) == p.esv \in {"SetRes", "GetRes", "SetGetRes", "InfCRes"}

\* Packet::is_normal_response
is_normal_response(p) == p.esv \in {"SetRes", "GetRes", "SetGetRes"}

\* Packet::get_prop: the first property with this epc, as <<prop>>, or <<>> for None
get_prop(p, epc) ==
    LET hits == {k \in 1..Len(p.props) : p.props[k].epc = epc}
    IN  IF hits = {} THEN <<>>
        ELSE <<p.props[CHOOSE k \in hits : \A h \in hits : k <= h]>>

(***************************************************************************)
(* response.rs                                                             *)
(***************************************************************************)
controller == <<5, 255, 1>>

node_profile == <<14, 240, 1>>

\* b.0 & (1 << j) != 0
bit_set(b, j) == (b \div (2 ^ j)) % 2 = 1

\* rows and columns of the table exchanged
map_id_swapped(i, j) == (128 + 16 * (i % 256)) + j

\* (0x80 + 0x10 * j as u8) + i as u8, before the result is fitted into a u8
map_id(i, j) == (128 + 16 * j) + (i % 256)

\* for j in 0..8 { if b.0 & (1 << j) != 0 { .. } }: the bits of one byte that
\* are set, in the order the inner loop visits them
set_bits(b) == SelectSeq(<<0, 1, 2, 3, 4, 5, 6, 7>>, LAMBDA j : bit_set(b, j))

\* the for loops of parse_property_map: the outer loop is at byte i of
\* edt.0[1..]; the inner loop pushes one identifier per set bit.  An identifier
\* above 0xFF panics under overflow checks and wraps without them.
RECURSIVE bitmap_props(_, _, _, _)
bitmap_props(rows, i, props, checks) ==
    IF i >= Len(rows) THEN Ok(props)
    ELSE LET js  == set_bits(rows[i + 1])
             ids == [k \in 1..Len(js) |-> map_id(i, js[k])]
         IN  IF checks /\ \E k \in 1..Len(js) : ids[k] > 255
             THEN Panic("attempt to add with overflow")
             ELSE bitmap_props(rows, i + 1,
                               props \o [k \in 1..Len(js) |-> ids[k] % 256], checks)

\* an explicit form that returns only the n bytes the count byte declares
parse_property_map_counted(edt, checks) ==
    IF Len(edt) = 0 THEN Panic("index out of bounds")
    ELSE IF edt[1] < 16
         THEN Ok(SubSeq(edt, 2, IF 1 + edt[1] < Len(edt) THEN 1 + edt[1] ELSE Len(edt)))
    ELSE bitmap_props(Tail(edt), 0, <<>>, checks)

\* fn parse_property_map; checks = the build's overflow checks
parse_property_map(edt, checks) ==
    IF Len(edt) = 0 THEN Panic("index out of bounds")
    ELSE IF edt[1] < 16 THEN Ok(Tail(edt))
    ELSE bitmap_props(Tail(edt), 0, <<>>, checks)

\* for chunk in prop.edt.0[1..].chunks(3) { EOJ::try_from(chunk.to_vec())? }
RECURSIVE read_instances(_, _)
read_instances(rest, instances) ==
    IF Len(rest) = 0 THEN Ok(instances)
    ELSE LET n     == IF Len(rest) < 3 THEN Len(rest) ELSE 3
             eoj   == EOJ_try_from(SubSeq(rest, 1, n))
         IN  IF eoj.status # "Ok" THEN eoj
             ELSE read_instances(SubSeq(rest, n + 1, Len(rest)), Append(instances, eoj.val))

\* impl TryFrom<&Packet> for DiscoveryResponse
DiscoveryResponse_try_from(p) ==
    IF ~is_normal_response(p) THEN Err("not a response")
    ELSE IF ~is_to(p, controller) THEN Err("invalid DEOJ")
    ELSE IF ~is_from(p, node_profile) THEN Err("invalid SEOJ")
    ELSE LET found == get_prop(p, 214)
         IN  IF found = <<>> THEN Err("not found instance list property")
             ELSE LET prop == found[1]
                  IN  IF Len(prop.edt) = 0 THEN Panic("index out of bounds")
                      ELSE LET r == read_instances(Tail(prop.edt), <<>>)
                           IN  IF r.status # "Ok" THEN r
                               ELSE Ok([eoj |-> p.seoj, instances |-> r.val])

\* SVI([svi.edt.0[0], svi.edt.0[1], svi.edt.0[2], svi.edt.0[3]])
read_svi(edt) ==
    IF Len(edt) < 4 THEN Panic("index out of bounds") ELSE Ok(SubSeq(edt, 1, 4))

\* impl TryFrom<&Packet> for SyncResponse
SyncResponse_try_from(p, checks) ==
    IF ~is_normal_response(p) THEN Err("not a response")
    ELSE IF ~is_to(p, controller) THEN Err("invalid DEOJ")
    ELSE LET svi  == get_prop(p, 130)
             anno == get_prop(p, 157)
             get  == get_prop(p, 159)
             set  == get_prop(p, 158)
         IN  IF svi = <<>> THEN Err("not found standard version information")
             ELSE IF anno = <<>> THEN Err("not found announcement property map")
             ELSE IF get = <<>> THEN Err("not found get property map")
             ELSE IF set = <<>> THEN Err("not found set property map")
             ELSE LET v == read_svi(svi[1].edt)
                      a == parse_property_map(anno[1].edt, checks)
                      g == parse_property_map(get[1].edt, checks)
                      s == parse_property_map(set[1].edt, checks)
                  IN  IF v.status # "Ok" THEN v
                      ELSE IF a.status # "Ok" THEN a
                      ELSE IF g.status # "Ok" THEN g
                      ELSE IF s.status # "Ok" THEN s
                      ELSE Ok([eoj |-> p.seoj, svi |-> v.val, anno_props |-> a.val,
                               get_props |-> g.val, set_props |-> s.val])

(***************************************************************************)
(* Packet::to_bytes, Packet::new_discovery_request and                     *)
(* Packet::new_sync_request are called by main.rs; packet.rs as modelled   *)
(* here does not define them.  They are modelled from the wire format of   *)
(* the specification.  The transaction id of a request is not specified    *)
(* and is a parameter.                                                     *)
(***************************************************************************)
ESV_to_u8(esv) ==
    CASE esv = "SetI" -> 96       [] esv = "SetC" -> 97
      [] esv = "Get" -> 98        [] esv = "InfReq" -> 99
      [] esv = "SetGet" -> 110    [] esv = "SetRes" -> 113
      [] esv = "GetRes" -> 114    [] esv = "Inf" -> 115
      [] esv = "InfC" -> 116      [] esv = "InfCRes" -> 122
      [] esv = "SetGetRes" -> 126 [] esv = "SetISNA" -> 80
      [] esv = "SetCSNA" -> 81    [] esv = "GetSNA" -> 82
      [] esv = "InfSNA" -> 83     [] esv = "SetGetSNA" -> 94

RECURSIVE props_to_bytes(_)
props_to_bytes(props) ==
    IF props = <<>> THEN <<>>
    ELSE <<Head(props).epc, Head(props).pdc>> \o Head(props).edt \o props_to_bytes(Tail(props))

to_bytes(p) ==
    <<EHD1, EHD2, p.tid \div 256, p.tid % 256>> \o p.seoj \o p.deoj
        \o <<ESV_to_u8(p.esv), p.opc>> \o props_to_bytes(p.props)

empty_prop(epc) == [epc |-> epc, pdc |-> 0, edt |-> <<>>]

new_discovery_request(tid) ==
    [tid |-> tid, seoj |-> controller, deoj |-> node_profile, esv |-> "Get",
     opc |-> 1, props |-> <<empty_prop(214)>>]

new_sync_request(eoj, tid) ==
    [tid |-> tid, seoj |-> controller, deoj |-> eoj, esv |-> "Get", opc |-> 4,
     props |-> <<empty_prop(130), empty_prop(157), empty_prop(159), empty_prop(158)>>]

(***************************************************************************)
(* main.rs                                                                 *)
(***************************************************************************)
ECHONET_LITE_PORT == 3610

MULTICAST_ADDR_V4 == [family |-> "v4", host |-> "224.0.23.0"]

\* IpAddr::to_canonical: an IPv4-mapped IPv6 address becomes the IPv4 address,
\* any other address is returned as it is
to_canonical(ip) ==
    IF ip.family = "v4mapped" THEN [family |-> "v4", host |-> ip.host] ELSE ip

\* the match on Packet::try_from(msg) and the if / else if / else under it,
\* up to the first send_to: what the datagram is classified as, and r.instances
classify(value, checks) ==
    LET parsed == Packet_try_from(value)
    IN  IF parsed.status = "Err" THEN [outcome |-> "parse_error", instances |-> <<>>]
        ELSE IF parsed.status = "Panic" THEN [outcome |-> "panic", instances |-> <<>>]
        ELSE LET d == DiscoveryResponse_try_from(parsed.val)
             IN  IF d.status = "Panic" THEN [outcome |-> "panic", instances |-> <<>>]
                 ELSE IF d.status = "Ok"
                      THEN [outcome |-> "discovery", instances |-> d.val.instances]
                 ELSE LET s == SyncResponse_try_from(parsed.val, checks)
                      IN  IF s.status = "Panic" THEN [outcome |-> "panic", instances |-> <<>>]
                          ELSE IF s.status = "Ok" THEN [outcome |-> "sync", instances |-> <<>>]
                          ELSE [outcome |-> "unknown", instances |-> <<>>]

\* where the main task is once the handler has run up to its first await
after_classify(c) ==
    IF c.outcome = "panic" THEN "panicked"
    ELSE IF c.instances # <<>> THEN "send"
    ELSE "recv"

\* a loop that gives up on the first failed send
rest_after_send_break(rest, ok) == IF ok THEN rest ELSE <<>>

\* the instances the for loop still has to visit once send_to has returned
\* (ok or not) for the one before them
rest_after_send(rest, ok) == rest

(***************************************************************************)
(* Inbound datagrams.  Any byte string can arrive; the sets below are the  *)
(* ones enumerated.                                                        *)
(***************************************************************************)
\* the wire layout Packet::try_from reads: 12 header bytes, then the body
wire(h1, h2, tid, seoj, deoj, esv, opc, body) ==
    <<h1, h2, tid \div 256, tid % 256>> \o seoj \o deoj \o <<esv, opc>> \o body

\* one property on the wire, its length byte matching its data
prop_bytes(epc, edt) == <<epc, Len(edt)>> \o edt

RECURSIVE flatten(_)
flatten(ss) == IF ss = <<>> THEN <<>> ELSE Head(ss) \o flatten(Tail(ss))

air_conditioner == <<1, 48, 1>>

water_heater == <<2, 123, 1>>

\* data of property 0xD6: empty, or a count byte (not always the number of
\* instances), whole 3-byte instances with repeats, and 0..2 stray bytes
InstanceListData(counts) ==
    {<<>>} \cup
    {<<n>> \o flatten(l) \o t :
        n \in counts,
        l \in SeqsUpTo({air_conditioner, water_heater}, MaxInstances),
        t \in {<<>>, <<9>>, <<9, 9>>}}

DiscoveryDatagrams ==
    {wire(EHD1, EHD2, 1, node_profile, controller, 114, 1, prop_bytes(214, d)) :
        d \in InstanceListData({2})}

\* the property maps of the repository's tests
test_bitmap == <<18, 13, 1, 1, 15, 0, 0, 0, 0, 1, 1, 1, 8, 0, 2, 10, 3>>

test_explicit == <<8, 128, 129, 143, 147, 160, 163, 176, 179>>

\* property lists of a sync response: 0x82, 0x9D, 0x9F and 0x9E in this order,
\* each drawn from a set of shapes (<<>> = the property is absent)
SyncProps(svis, annos, gets, sets) ==
    {v \o a \o g \o t : v \in svis, a \in annos, g \in gets, t \in sets}

svi_ok == <<[epc |-> 130, pdc |-> 4, edt |-> <<0, 0, 74, 0>>]>>

svi_short == <<[epc |-> 130, pdc |-> 3, edt |-> <<0, 0, 74>>]>>

anno_ok == <<[epc |-> 157, pdc |-> 2, edt |-> <<1, 128>>]>>

anno_empty == <<[epc |-> 157, pdc |-> 0, edt |-> <<>>]>>

get_ok == <<[epc |-> 159, pdc |-> 17, edt |-> test_bitmap]>>

get_long == <<[epc |-> 159, pdc |-> 18, edt |-> test_bitmap \o <<128>>]>>

set_ok == <<[epc |-> 158, pdc |-> 9, edt |-> test_explicit]>>

SyncDatagrams ==
    {wire(EHD1, EHD2, 2, air_conditioner, controller, 114, Len(ps), props_to_bytes(ps)) :
        ps \in SyncProps({svi_ok}, {anno_ok}, {get_ok, get_long}, {set_ok, <<>>})
               \cup SyncProps({svi_short}, {anno_ok}, {get_ok}, {set_ok})
               \cup SyncProps({svi_ok}, {anno_empty}, {get_ok}, {set_ok})}

OtherDatagrams ==
    { <<>>, <<EHD1, EHD2>>,
      wire(0, EHD2, 3, node_profile, controller, 114, 0, <<>>),
      wire(EHD1, 0, 3, node_profile, controller, 114, 0, <<>>),
      wire(EHD1, EHD2, 3, node_profile, controller, 0, 0, <<>>),
      wire(EHD1, EHD2, 3, node_profile, controller, 114, 1, <<214, 4, 1, 1, 48>>),
      to_bytes(new_discovery_request(3)),
      wire(EHD1, EHD2, 3, node_profile, controller, 98, 1,
           prop_bytes(214, <<1>> \o air_conditioner)),
      wire(EHD1, EHD2, 3, node_profile, controller, 115, 1,
           prop_bytes(214, <<1>> \o air_conditioner)),
      wire(EHD1, EHD2, 3, air_conditioner, controller, 114, 1,
           prop_bytes(214, <<1>> \o air_conditioner)),
      wire(EHD1, EHD2, 3, node_profile, node_profile, 114, 1,
           prop_bytes(214, <<1>> \o air_conditioner)),
      wire(EHD1, EHD2, 3, node_profile, controller, 114, 0, <<>>) }

Datagrams == DiscoveryDatagrams \cup SyncDatagrams \cup OtherDatagrams

Addrs == {[family |-> "v4mapped", host |-> "192.0.2.7"],
          [family |-> "v6", host |-> "2001:db8::7"]}

(***************************************************************************)
(* The orchestrator: the receive loop of main and the task it spawns.      *)
(***************************************************************************)
function_idle == input = <<>> /\ output = <<>> /\ phase = "idle"

orchestrator_idle ==
    /\ pc = "recv" /\ task = "sleeping" /\ msg = <<>>
    /\ addr = [family |-> "none", host |-> ""]
    /\ outcome = "none" /\ pending = <<>> /\ attempts = <<>> /\ discovery_sends = <<>>

Init ==
    /\ overflow_checks \in BOOLEAN
    /\ orchestrator_idle
    /\ function_idle

\* sock.recv_from returned Ok((len, addr)): the handler runs up to its first await
Recv(value, from) ==
    /\ pc = "recv"
    /\ LET c == classify(value, overflow_checks)
       IN  /\ msg' = value
           /\ addr' = from
           /\ outcome' = c.outcome
           /\ pending' = c.instances
           /\ attempts' = <<>>
           /\ pc' = after_classify(c)
    /\ UNCHANGED <<overflow_checks, task, discovery_sends, input, output, phase>>

\* sock.recv_from returned Err(e): logged, continue
RecvFailed ==
    /\ pc = "recv"
    /\ outcome' = "recv_error"
    /\ msg' = <<>>
    /\ addr' = [family |-> "none", host |-> ""]
    /\ pending' = <<>>
    /\ attempts' = <<>>
    /\ UNCHANGED <<overflow_checks, pc, task, discovery_sends, input, output, phase>>

\* one iteration of for eoj in r.instances: send_to returns, Ok or Err (logged)
SendSync(ok) ==
    /\ pc = "send"
    /\ LET rest == rest_after_send(Tail(pending), ok)
       IN  /\ attempts' = Append(attempts, [to |-> <<to_canonical(addr), ECHONET_LITE_PORT>>,
                                             eoj |-> Head(pending), ok |-> ok])
           /\ pending' = rest
           /\ pc' = IF rest = <<>> THEN "recv" ELSE "send"
    /\ UNCHANGED <<overflow_checks, task, msg, addr, outcome, discovery_sends,
                   input, output, phase>>

\* the spawned task, after its sleep: one send_to of the discovery request,
\* Ok or Err (logged), and the task ends.  A panic of main ends the process.
DiscoverySend(ok) ==
    /\ task = "sleeping"
    /\ pc # "panicked"
    /\ discovery_sends' = Append(discovery_sends,
                                 [to |-> <<MULTICAST_ADDR_V4, ECHONET_LITE_PORT>>, ok |-> ok])
    /\ task' = "done"
    /\ UNCHANGED <<overflow_checks, pc, msg, addr, outcome, pending, attempts,
                   input, output, phase>>

Next ==
    \/ \E value \in Datagrams, from \in Addrs : Recv(value, from)
    \/ RecvFailed
    \/ \E ok \in BOOLEAN : SendSync(ok)
    \/ \E ok \in BOOLEAN : DiscoverySend(ok)

Spec == Init /\ [][Next]_vars

\* the runtime runs the spawned task once its sleep is over: the discovery
\* send is not postponed for ever while it can be made
FairSpec == Spec /\ WF_vars(\E ok \in BOOLEAN : DiscoverySend(ok))

(***************************************************************************)
(* The frame codec on its own: Packet::try_from applied to enumerated      *)
(* buffers, and to_bytes followed by Packet::try_from applied to           *)
(* enumerated frames.                                                      *)
(***************************************************************************)
BodyBytes == {0, 1, 2, 128}

\* every header/service-code combination over a few bodies; every service
\* code byte; every short body under every property count; every prefix
CodecBuffers ==
    LET headers ==
            {wire(h1, h2, 43521, air_conditioner, controller, esv, opc, body) :
                h1 \in {EHD1, EHD2, 0}, h2 \in {EHD2, EHD1, 0}, esv \in {114, 0},
                opc \in {0, 1}, body \in {<<>>, <<128, 0>>}}
        codes ==
            {wire(EHD1, EHD2, 1, air_conditioner, controller, esv, opc, <<128, 1, 7>>) :
                esv \in Byte, opc \in {0, 1, 2}}
        bodies ==
            {wire(EHD1, EHD2, 258, node_profile, controller, 98, opc, body) :
                opc \in 0..MaxOpc, body \in SeqsUpTo(BodyBytes, MaxBody)}
        long ==
            {wire(EHD1, EHD2, 47873, air_conditioner, controller, 114, 2,
                  prop_bytes(158, test_explicit) \o prop_bytes(159, test_bitmap) \o t) :
                t \in {<<>>, <<0>>, <<255, 255>>}}
        short ==
            {SubSeq(b, 1, n) :
                b \in {wire(h1, EHD2, 1, node_profile, controller, esv, 1, <<>>) :
                          h1 \in {EHD1, 0}, esv \in {114, 0}},
                n \in 0..11}
    IN  headers \cup codes \cup bodies \cup long \cup short

PropPool ==
    {empty_prop(214), [epc |-> 130, pdc |-> 4, edt |-> <<0, 0, 74, 0>>],
     [epc |-> 0, pdc |-> 1, edt |-> <<255>>], [epc |-> 255, pdc |-> 2, edt |-> <<16, 129>>]}

ESVs == {"SetI", "SetC", "Get", "InfReq", "SetGet", "SetRes", "GetRes", "Inf", "InfC",
         "InfCRes", "SetGetRes", "SetISNA", "SetCSNA", "GetSNA", "InfSNA", "SetGetSNA"}

\* frames whose opc is the number of properties and whose pdc is the size of edt
ValidFrames ==
    {[tid |-> tid, seoj |-> controller, deoj |-> node_profile, esv |-> esv,
      opc |-> Len(ps), props |-> ps] :
        tid \in {0, 255, 256, 65535}, esv \in ESVs, ps \in SeqsUpTo(PropPool, 1)}
    \cup
    {[tid |-> 43521, seoj |-> seoj, deoj |-> controller, esv |-> "GetRes",
      opc |-> Len(ps), props |-> ps] :
        seoj \in {node_profile, air_conditioner}, ps \in SeqsUpTo(PropPool, MaxOpc)}
    \cup
    {new_discovery_request(tid) : tid \in {0, 1}}
    \cup
    {new_sync_request(eoj, tid) : eoj \in {air_conditioner, water_heater}, tid \in {0, 1}}

InitCodec ==
    /\ overflow_checks \in BOOLEAN
    /\ orchestrator_idle
    /\ output = <<>>
    /\ \/ input \in CodecBuffers /\ phase = "buffer"
       \/ input \in ValidFrames /\ phase = "frame"

\* Packet::try_from(&input[..])
Decode ==
    /\ phase = "buffer"
    /\ output' = Packet_try_from(input)
    /\ phase' = "decoded"
    /\ UNCHANGED <<overflow_checks, input, orchestrator_vars>>

\* input.to_bytes()
Encode ==
    /\ phase = "frame"
    /\ output' = to_bytes(input)
    /\ phase' = "encoded"
    /\ UNCHANGED <<overflow_checks, input, orchestrator_vars>>

\* Packet::try_from on the bytes to_bytes produced
DecodeEncoded ==
    /\ phase = "encoded"
    /\ output' = [bytes |-> output, decoded |-> Packet_try_from(output)]
    /\ phase' = "round_trip"
    /\ UNCHANGED <<overflow_checks, input, orchestrator_vars>>

NextCodec == Decode \/ Encode \/ DecodeEncoded

SpecCodec == InitCodec /\ [][NextCodec]_vars

(***************************************************************************)
(* The response interpreters on their own, applied to enumerated packets   *)
(* (as the repository's tests do, the packets are built directly).         *)
(***************************************************************************)
instance_list(d, pdc) == [epc |-> 214, pdc |-> pdc, edt |-> d]

svi_empty == <<[epc |-> 130, pdc |-> 0, edt |-> <<>>]>>

svi_long == <<[epc |-> 130, pdc |-> 5, edt |-> <<0, 0, 82, 0, 9>>]>>

anno_bitmap == <<[epc |-> 157, pdc |-> 17, edt |-> test_bitmap]>>

get_explicit == <<[epc |-> 159, pdc |-> 3, edt |-> <<2, 128, 224>>]>>

set_empty == <<[epc |-> 158, pdc |-> 0, edt |-> <<>>]>>

RECURSIVE reverse(_)
reverse(ss) == IF ss = <<>> THEN <<>> ELSE Append(reverse(Tail(ss)), Head(ss))

packet(seoj, deoj, esv, props) ==
    [tid |-> 1, seoj |-> seoj, deoj |-> deoj, esv |-> esv, opc |-> Len(props),
     props |-> props]

InterpreterPackets ==
    LET sweep ==
            {packet(seoj, deoj, esv, ps) :
                seoj \in {node_profile, air_conditioner, controller},
                deoj \in {controller, node_profile}, esv \in ESVs,
                ps \in {<<>>, <<instance_list(<<1>> \o air_conditioner, 4)>>,
                        svi_ok \o anno_ok \o get_ok \o set_ok,
                        svi_short \o anno_empty \o <<instance_list(<<>>, 0)>>}}
        discovery ==
            UNION {{packet(node_profile, controller, esv, pre \o <<instance_list(d, pdc)>>) :
                        esv \in {"SetRes", "GetRes", "SetGetRes"},
                        pre \in {<<>>, svi_ok, <<instance_list(<<1>> \o water_heater, 4)>>},
                        pdc \in {Len(d), 4}} :
                   d \in InstanceListData({0, 2, 255})}
        sync ==
            {packet(seoj, controller, "GetRes", ps) :
                seoj \in {air_conditioner, node_profile},
                ps \in SyncProps({<<>>, svi_ok, svi_short, svi_empty, svi_long},
                                 {<<>>, anno_ok, anno_empty, anno_bitmap},
                                 {<<>>, get_ok, get_long, get_explicit},
                                 {<<>>, set_ok, set_empty})}
        reordered ==
            {packet(air_conditioner, controller, "SetGetRes", reverse(ps) \o dup) :
                ps \in SyncProps({svi_ok, svi_short}, {anno_ok}, {get_ok, get_long}, {set_ok}),
                dup \in {<<>>, svi_long \o set_empty}}
    IN  sweep \cup discovery \cup sync \cup reordered

InitInterpreters ==
    /\ overflow_checks \in BOOLEAN
    /\ orchestrator_idle
    /\ output = <<>>
    /\ input \in InterpreterPackets
    /\ phase = "packet"

\* response::DiscoveryResponse::try_from(&input)
TryDiscovery ==
    /\ phase = "packet"
    /\ output' = DiscoveryResponse_try_from(input)
    /\ phase' = "discovery"
    /\ UNCHANGED <<overflow_checks, input, orchestrator_vars>>

\* response::SyncResponse::try_from(&input)
TrySync ==
    /\ phase = "packet"
    /\ output' = SyncResponse_try_from(input, overflow_checks)
    /\ phase' = "sync"
    /\ UNCHANGED <<overflow_checks, input, orchestrator_vars>>

NextInterpreters == TryDiscovery \/ TrySync

SpecInterpreters == InitInterpreters /\ [][NextInterpreters]_vars

(***************************************************************************)
(* parse_property_map on its own, applied to enumerated property data.     *)
(***************************************************************************)
\* rows of a bitmap: n bytes, all zero but at most two
BitmapRows(n) ==
    LET zero == [k \in 1..n |-> 0]
    IN  {[[zero EXCEPT ![p] = x] EXCEPT ![q] = y] :
            p \in 1..n, q \in 1..n, x \in {0, 1, 136, 255}, y \in {0, 1, 136, 255}}
        \cup {zero}

PropertyMapData ==
    {<<>>, test_explicit, test_bitmap}
    \cup {<<n>> \o t : n \in {0, 1, 3, 15}, t \in SeqsUpTo({128, 129, 255}, MaxExplicit)}
    \cup UNION {{<<n>> \o rows : n \in {16, 255}, rows \in BitmapRows(len)} : len \in 0..MaxRows}

InitPropertyMap ==
    /\ overflow_checks \in BOOLEAN
    /\ orchestrator_idle
    /\ output = <<>>
    /\ input \in PropertyMapData
    /\ phase = "edt"

\* parse_property_map(&input)
ParseMap ==
    /\ phase = "edt"
    /\ output' = parse_property_map(input, overflow_checks)
    /\ phase' = "map"
    /\ UNCHANGED <<overflow_checks, input, orchestrator_vars>>

NextPropertyMap == ParseMap

SpecPropertyMap == InitPropertyMap /\ [][NextPropertyMap]_vars

(***************************************************************************)
(* Properties of the orchestrator (Spec).                                  *)
(***************************************************************************)
\* C1: whatever datagram arrives, the receive loop finishes handling it and
\* goes back to waiting: no datagram stops the loop.
C1_LoopSurvivesEveryDatagram == pc # "panicked" /\ outcome # "panic"

\* the instances of the Discovery Response the current datagram was recognized as
C2_Instances == DiscoveryResponse_try_from(Packet_try_from(msg).val).val.instances

\* C2: while a datagram recognized as a Discovery Response is handled, the
\* sends attempted so far and the instances still to visit are together the
\* instance list, one attempt per instance, in order, repeats included, each
\* to the origin host on the ECHONET Lite port, whatever earlier sends
\* returned; handling is over only when all were attempted; every other
\* datagram (and a failed receive) attempts no send.
C2_OneSendPerInstance ==
    /\ outcome = "discovery" =>
          /\ Len(attempts) + Len(pending) = Len(C2_Instances)
          /\ \A k \in 1..Len(attempts) :
                /\ attempts[k].eoj = C2_Instances[k]
                /\ attempts[k].to[1].host = addr.host
                /\ attempts[k].to[2] = 3610
          /\ pending = SubSeq(C2_Instances, Len(attempts) + 1, Len(C2_Instances))
          /\ (pc = "recv" <=> pending = <<>>)
    /\ outcome # "discovery" => attempts = <<>> /\ pending = <<>>

\* a datagram listing the same instance twice was handled to the end: two
\* attempts for it, the second made although the first failed
C2_Witness ==
    /\ pc = "recv"
    /\ outcome = "discovery"
    /\ Len(attempts) = 2
    /\ attempts[1].eoj = attempts[2].eoj
    /\ ~attempts[1].ok

(***************************************************************************)
(* Properties of the frame codec (SpecCodec).                              *)
(***************************************************************************)
C3_ServiceCodes == {96, 97, 98, 99, 110, 113, 114, 115, 116, 122, 126, 80, 81, 82, 83, 94}

\* the error kinds of the specification, by the messages of the code
C3_Kind(r) ==
    CASE r.status = "Ok" -> "Ok"
      [] r.status = "Err" /\ r.err = "invalid packet" -> "TooShort"
      [] r.status = "Err" /\ r.err \in {"invalid EHD1", "invalid EHD2"} -> "InvalidHeader"
      [] r.status = "Err" /\ r.err = "invalid ESV" -> "InvalidServiceCode"
      [] r.status = "Err" /\ r.err = "invalid property data" -> "PropertyTruncated"
      [] OTHER -> "Other"

\* the offset just after the k-th property of buffer b when the first k
\* properties lie within b (12 for k = 0), and -1 when they do not
RECURSIVE C3_PropEnd(_, _)
C3_PropEnd(b, k) ==
    IF k = 0 THEN 12
    ELSE LET s == C3_PropEnd(b, k - 1)
         IN  IF s < 0 \/ s + 2 > Len(b) THEN -1
             ELSE IF s + 2 + b[s + 2] > Len(b) THEN -1
             ELSE s + 2 + b[s + 2]

C3_Expected(b) ==
    IF Len(b) < 12 THEN "TooShort"
    ELSE IF b[1] # 16 \/ b[2] # 129 THEN "InvalidHeader"
    ELSE IF b[11] \notin C3_ServiceCodes THEN "InvalidServiceCode"
    ELSE IF \E k \in 1..b[12] : C3_PropEnd(b, k) < 0 THEN "PropertyTruncated"
    ELSE "Ok"

\* C3: Packet::try_from returns, for every buffer, the outcome of the first
\* failing check in the order length, header, service code, properties (a
\* property of length 0 fits), and it succeeds when no check fails; it never
\* panics.
C3_FirstFailingCheckDecides ==
    phase = "decoded" =>
        /\ output.status \in {"Ok", "Err"}
        /\ C3_Kind(output) = C3_Expected(input)

\* two properties declared, the first of length 0 (accepted), the second
\* declaring one data byte that is not there
C3_Witness ==
    /\ phase = "decoded"
    /\ Len(input) = 16
    /\ input[12] = 2
    /\ input[14] = 0
    /\ input[16] = 1
    /\ C3_Kind(output) = "PropertyTruncated"

C4_ESVTable ==
    {<<96, "SetI">>, <<97, "SetC">>, <<98, "Get">>, <<99, "InfReq">>, <<110, "SetGet">>,
     <<113, "SetRes">>, <<114, "GetRes">>, <<115, "Inf">>, <<116, "InfC">>,
     <<122, "InfCRes">>, <<126, "SetGetRes">>, <<80, "SetISNA">>, <<81, "SetCSNA">>,
     <<82, "GetSNA">>, <<83, "InfSNA">>, <<94, "SetGetSNA">>}

\* C4: a successful Packet::try_from returns the fields at their wire
\* offsets (tid big-endian), exactly opc properties laid out one after the
\* other from offset 12, each with its epc, pdc and pdc data bytes in wire
\* order; the bytes after the last declared property do not change the result.
C4_DecodedFieldsMatchWire ==
    phase = "decoded" /\ output.status = "Ok" =>
        LET b == input
            p == output.val
        IN  /\ p.tid = b[3] * 256 + b[4]
            /\ p.seoj = SubSeq(b, 5, 7)
            /\ p.deoj = SubSeq(b, 8, 10)
            /\ <<b[11], p.esv>> \in C4_ESVTable
            /\ p.opc = b[12]
            /\ Len(p.props) = b[12]
            /\ \A k \in 1..Len(p.props) :
                  LET s == C3_PropEnd(b, k - 1)
                  IN  /\ p.props[k].epc = b[s + 1]
                      /\ p.props[k].pdc = b[s + 2]
                      /\ Len(p.props[k].edt) = b[s + 2]
                      /\ p.props[k].edt = SubSeq(b, s + 3, s + 2 + b[s + 2])
            /\ (b[12] = 0 => p.props = <<>>)
            /\ Packet_try_from(SubSeq(b, 1, C3_PropEnd(b, b[12]))) = output

\* a buffer with two non-empty properties and two bytes after them was decoded
C4_Witness ==
    /\ phase = "decoded"
    /\ output.status = "Ok"
    /\ input[12] = 2
    /\ Len(output.val.props[2].edt) = 17
    /\ Len(input) = C3_PropEnd(input, 2) + 2
    /\ output.val.tid = 47873

RECURSIVE C5_Size(_)
C5_Size(props) ==
    IF props = <<>> THEN 0 ELSE 2 + Head(props).pdc + C5_Size(Tail(props))

\* C5: for a frame whose opc is its number of properties and whose pdc are
\* the sizes of its data, decoding the encoded frame gives the frame back, and
\* the encoding is 12 + the sum of (2 + pdc) bytes long.
C5_RoundTrip ==
    phase = "round_trip" =>
        /\ output.decoded.status = "Ok"
        /\ output.decoded.val = input
        /\ Len(output.bytes) = 12 + C5_Size(input.props)

\* a frame with three properties, data among them, went through both steps
C5_Witness ==
    /\ phase = "round_trip"
    /\ Len(input.props) = 3
    /\ input.props[2].pdc = 4
    /\ input.tid = 43521
    /\ Len(output.bytes) > 18

(***************************************************************************)
(* Properties of the response interpreters (SpecInterpreters).             *)
(***************************************************************************)
C6_Responses == {"SetRes", "GetRes", "SetGetRes"}

C6_Has(p, epc) == \E k \in 1..Len(p.props) : p.props[k].epc = epc

\* the data of the first property of p with this identifier
C6_Data(p, epc) ==
    p.props[CHOOSE k \in 1..Len(p.props) :
                /\ p.props[k].epc = epc
                /\ \A h \in 1..(k - 1) : p.props[h].epc # epc].edt

C6_Addressed(p) ==
    /\ p.esv \in C6_Responses
    /\ p.deoj = <<5, 255, 1>>
    /\ p.seoj = <<14, 240, 1>>
    /\ C6_Has(p, 214)

\* C6: Discovery Response interpretation succeeds only for a normal response
\* from the node profile to the controller that has property 0xD6; on success
\* the responding object is the source and the instances are the bytes after
\* the first data byte, three by three, in order, whatever the count byte says
\* (none is a valid result); stray bytes after the last whole instance make
\* it fail with the invalid-instance error.
C6_DiscoveryInterpretation ==
    phase = "discovery" =>
        /\ output.status = "Ok" => C6_Addressed(input)
        /\ C6_Addressed(input) /\ Len(C6_Data(input, 214)) >= 1 =>
              LET d == C6_Data(input, 214)
                  n == (Len(d) - 1) \div 3
              IN  IF (Len(d) - 1) % 3 = 0
                  THEN /\ output.status = "Ok"
                       /\ output.val.eoj = input.seoj
                       /\ Len(output.val.instances) = n
                       /\ \A k \in 1..n :
                             output.val.instances[k] = <<d[3 * k - 1], d[3 * k], d[3 * k + 1]>>
                  ELSE output.status = "Err" /\ output.err = "invalid EOJ"

\* a list announcing no instance and carrying two was interpreted
C6_Witness ==
    /\ phase = "discovery"
    /\ output.status = "Ok"
    /\ Len(output.val.instances) = 2
    /\ C6_Data(input, 214)[1] = 0
    /\ Len(input.props) = 2

C7_Missing(epc) ==
    CASE epc = 130 -> "not found standard version information"
      [] epc = 157 -> "not found announcement property map"
      [] epc = 159 -> "not found get property map"
      [] epc = 158 -> "not found set property map"

\* what the Property Map Decoder returns for the data of a property of the input
C7_Map(epc) == parse_property_map(C6_Data(input, epc), overflow_checks)

\* C7: Sync Response interpretation of a normal response addressed to the
\* controller fails with the missing-property error of an absent property
\* when one of 0x82, 0x9D, 0x9F, 0x9E is absent, fails with an error when
\* 0x82 has fewer than 4 data bytes, and otherwise (the three maps being
\* decodable) succeeds with the source, the first 4 bytes of 0x82 and the
\* three decoded maps.
C7_SyncInterpretation ==
    phase = "sync" /\ input.esv \in C6_Responses /\ input.deoj = <<5, 255, 1>> =>
        LET absent == {epc \in {130, 157, 159, 158} : ~C6_Has(input, epc)}
        IN  IF absent # {}
            THEN output.status = "Err" /\ output.err \in {C7_Missing(epc) : epc \in absent}
            ELSE IF Len(C6_Data(input, 130)) < 4
            THEN output.status = "Err"
            ELSE (\A epc \in {157, 159, 158} : C7_Map(epc).status = "Ok") =>
                     /\ output.status = "Ok"
                     /\ output.val.eoj = input.seoj
                     /\ output.val.svi = SubSeq(C6_Data(input, 130), 1, 4)
                     /\ output.val.anno_props = C7_Map(157).val
                     /\ output.val.get_props = C7_Map(159).val
                     /\ output.val.set_props = C7_Map(158).val

\* C8: a frame whose service code is not SetRes, GetRes or SetGetRes fails
\* both interpreters with the not-a-response error, whatever its source,
\* destination and properties.
C8_RequestsAreNotResponses ==
    phase \in {"discovery", "sync"} /\ input.esv \notin C6_Responses =>
        output.status = "Err" /\ output.err = "not a response"

\* a notification from the node profile to the controller whose 0xD6 has no
\* data at all was refused for its service code
C8_Witness ==
    /\ phase = "discovery"
    /\ input.esv = "InfC"
    /\ input.seoj = <<14, 240, 1>>
    /\ input.deoj = <<5, 255, 1>>
    /\ C6_Has(input, 214)
    /\ C6_Data(input, 214) = <<>>
    /\ output.err = "not a response"

(***************************************************************************)
(* Properties of the Property Map Decoder (SpecPropertyMap).               *)
(***************************************************************************)
\* C9: for data whose first byte is below 16 the map is all the bytes after
\* the first, in order, however many the first byte declares.
C9_ExplicitForm ==
    phase = "map" /\ Len(input) >= 1 /\ input[1] < 16 =>
        /\ output.status = "Ok"
        /\ Len(output.val) = Len(input) - 1
        /\ \A k \in 1..(Len(input) - 1) : output.val[k] = input[k + 1]

\* one identifier declared, three present, three returned
C9_Witness ==
    /\ phase = "map"
    /\ Len(input) = 4
    /\ input[1] = 1
    /\ Len(output.val) = 3
    /\ output.val[3] = 255

\* the set bits of a 16-byte bitmap, as <<i, j>>
C10_Bits == {ij \in (0..15) \X (0..7) : (input[ij[1] + 2] \div (2 ^ ij[2])) % 2 = 1}

\* position of an identifier in the enumeration by byte, then bit
C10_Key(id) == (id % 16) * 8 + ((id - 128) \div 16)

\* C10: for data whose first byte is at least 16, followed by 16 bitmap
\* bytes, the map holds 0x80 + 0x10*j + i exactly for the set bits j of the
\* bytes i, by increasing i then j, each once.
C10_BitmapForm ==
    phase = "map" /\ Len(input) = 17 /\ input[1] >= 16 =>
        /\ output.status = "Ok"
        /\ {output.val[k] : k \in 1..Len(output.val)}
              = {128 + 16 * ij[2] + ij[1] : ij \in C10_Bits}
        /\ Len(output.val) = Cardinality(C10_Bits)
        /\ \A k \in 1..(Len(output.val) - 1) :
              C10_Key(output.val[k]) < C10_Key(output.val[k + 1])

\* the bitmap of test_parse_property_map gave the map the test expects
C10_Witness ==
    /\ phase = "map"
    /\ input = <<18, 13, 1, 1, 15, 0, 0, 0, 0, 1, 1, 1, 8, 0, 2, 10, 3>>
    /\ output.val = <<128, 160, 176, 129, 130, 131, 147, 163, 179, 136, 137, 138, 187,
                      157, 158, 190, 143, 159>>

\* C11: the Property Map Decoder does not return a map, it reports a failure,
\* when the data is empty and when the count byte is at least 16 and fewer
\* than 16 bytes follow it.
C11_ShortDataIsRefused ==
    phase = "map" /\ (Len(input) = 0 \/ (input[1] >= 16 /\ Len(input) - 1 < 16)) =>
        output.status # "Ok"

\* C13: for data of 1 to 255 bytes whose first byte is at least 16, every
\* identifier is computed within 8 bits (no overflow) and the identifiers
\* returned lie in 0x80..0xFF, also when more than 16 bytes follow the count
\* byte.
C13_IdentifiersFitInAByte ==
    phase = "map" /\ Len(input) \in 1..255 /\ input[1] >= 16 =>
        /\ output.status = "Ok"
        /\ \A k \in 1..Len(output.val) : output.val[k] \in 128..255

(***************************************************************************)
(* Properties of the orchestrator under fair scheduling (FairSpec).        *)
(***************************************************************************)
\* C12: the discovery request is sent by the spawned task once and never
\* again, and whatever datagrams arrive and however they are handled, the
\* send is eventually attempted.
C12_DiscoverySentOnceEventually ==
    /\ [](Len(discovery_sends) <= 1)
    /\ [][task = "done" => task' = "done" /\ discovery_sends' = discovery_sends]_vars
    /\ <>(task = "done")

====
